---- MODULE Spec2Model ----
(***************************************************************************)
(* The prank relay server (multi-target variant): the room registry, the   *)
(* per-connection session (clientInfo), the message and close handlers.    *)
(* Every transport event is processed to completion before the next one    *)
(* (Node's single-threaded event loop), so each handler is one action.     *)
(***************************************************************************)
EXTENDS Integers, Sequences, FiniteSets, TLC

\* ---------------------------------------------------------------- bounds
\* Number of connections the server accepts during a run.
MaxConns == 2
\* Cap on the length of a room's clients array (it is unbounded in the code).
MaxClients == 2

\* ------------------------------------------------------------- constants
\* JS null (no handle / no clientInfo); connection handles are 1..MaxConns.
NULL == 0
Conns == 1..MaxConns

PRANK_ROOM_CODE == "PRANK_ROOM_XYZ123_SECRET"
\* roomCode values a join message can carry: the secret and anything else
\* (a different string, or the field missing).
RoomCodes == {PRANK_ROOM_CODE, "WRONG_CODE"}
\* message.payload: present (an object with a type) or absent (undefined).
NoPayload == "undefined"
Payloads == {"X", NoPayload}

\* clientInfo = null
NoInfo == [type |-> "null", roomCode |-> "", ws |-> NULL]
senderInfo(roomCode) == [type |-> "sender", roomCode |-> roomCode, ws |-> NULL]
clientInfoOf(roomCode, ws) == [type |-> "client", roomCode |-> roomCode, ws |-> ws]

\* rooms = new Map()
EmptyRooms == [k \in {} |-> [sender |-> NULL, clients |-> <<>>]]
\* { sender: null, clients: [] }
NewRoom == [sender |-> NULL, clients |-> <<>>]

VARIABLES
    conn,        \* conn[c]: "idle" (not yet accepted), "open", "closed" (close event processed)
    clientInfo,  \* clientInfo[c]: the closure variable of connection c
    rooms,       \* the Map from room code to {sender, clients}
    ev,          \* the last transport event processed
    sent,        \* the ws.send calls made while processing it, in order, with their outcome
    exc,         \* "none", "caught" (by the message handler's try/catch), "uncaught"
    pre,         \* the registry and the sessions as they were when that event arrived
    run          \* observer of a run so far free of close events and failed sends

vars == <<conn, clientInfo, rooms, ev, sent, exc, pre, run>>

\* ---------------------------------------------------------- the messages
\* The argument of one ws.send call: the recipient and the JSON's fields.
Out(to, type, count, total, payload) ==
    [to |-> to, type |-> type, count |-> count, total |-> total, payload |-> payload]

\* A handler's working state: the registry and sessions as mutated so far, the
\* sends made so far, and whether an exception is propagating.
Frame(r, ci) == [rooms |-> r, clientInfo |-> ci, sent |-> <<>>, threw |-> FALSE]

\* ws.send(JSON.stringify(m)): throws for the handles in F (the sends that fail
\* during this event); nothing after a throw runs until it is caught.
send(S, m, F) ==
    IF S.threw THEN S
    ELSE [S EXCEPT !.sent = Append(@, [to |-> m.to, type |-> m.type, count |-> m.count,
                                       total |-> m.total, payload |-> m.payload,
                                       ok |-> m.to \notin F]),
                   !.threw = m.to \in F]

\* (mutant: the secret is not compared)
anyRoomCode(roomCode) == roomCode = roomCode

\* roomCode !== PRANK_ROOM_CODE is false
validRoomCode(roomCode) == roomCode = PRANK_ROOM_CODE

\* if (!rooms.has(roomCode)) rooms.set(roomCode, { sender: null, clients: [] })
getOrCreate(r, roomCode) ==
    IF roomCode \in DOMAIN r THEN r ELSE r @@ (roomCode :> NewRoom)

\* rooms.delete(roomCode)
deleteRoom(r, roomCode) == [k \in DOMAIN r \ {roomCode} |-> r[k]]

\* (mutant: the count is one short, as if taken before the push)
broadcastStaleCount(S, roomCode, F) ==
    IF S.threw THEN S
    ELSE IF roomCode \notin DOMAIN S.rooms THEN S
    ELSE IF S.rooms[roomCode].sender = NULL THEN S
    ELSE send(S, Out(S.rooms[roomCode].sender, "client_count",
                     Len(S.rooms[roomCode].clients) - 1, -1, NoPayload), F)

broadcastClientCount(S, roomCode, F) ==
    IF S.threw THEN S
    ELSE IF roomCode \notin DOMAIN S.rooms THEN S
    ELSE IF S.rooms[roomCode].sender = NULL THEN S
    ELSE send(S, Out(S.rooms[roomCode].sender, "client_count",
                     Len(S.rooms[roomCode].clients), -1, NoPayload), F)

\* (mutant: the count is not pushed on a sender's join)
handleSenderJoinNoCount(S, ws, message, F) ==
    LET roomCode == message.roomCode IN
    IF ~validRoomCode(roomCode)
    THEN send(S, Out(ws, "error", -1, -1, NoPayload), F)
    ELSE LET S1 == [S EXCEPT !.rooms = getOrCreate(@, roomCode)]
             S2 == [S1 EXCEPT !.rooms[roomCode].sender = ws]
             S3 == [S2 EXCEPT !.clientInfo[ws] = senderInfo(roomCode)]
             n  == Len(S3.rooms[roomCode].clients)
         IN  IF n > 0
             THEN send(S3, Out(ws, "target_acquired", n, -1, NoPayload), F)
             ELSE send(S3, Out(ws, "waiting_for_target", -1, -1, NoPayload), F)

handleSenderJoin(S, ws, message, F) ==
    LET roomCode == message.roomCode IN
    IF ~validRoomCode(roomCode)
    THEN send(S, Out(ws, "error", -1, -1, NoPayload), F)
    ELSE LET S1 == [S EXCEPT !.rooms = getOrCreate(@, roomCode)]
             S2 == [S1 EXCEPT !.rooms[roomCode].sender = ws]
             S3 == [S2 EXCEPT !.clientInfo[ws] = senderInfo(roomCode)]
             S4 == broadcastClientCount(S3, roomCode, F)
             n  == Len(S4.rooms[roomCode].clients)
         IN  IF n > 0
             THEN send(S4, Out(ws, "target_acquired", n, -1, NoPayload), F)
             ELSE send(S4, Out(ws, "waiting_for_target", -1, -1, NoPayload), F)

\* (mutant: target_acquired goes out before the count)
handleClientJoinSwapped(S, ws, message, F) ==
    LET roomCode == message.roomCode IN
    IF ~validRoomCode(roomCode)
    THEN send(S, Out(ws, "error", -1, -1, NoPayload), F)
    ELSE LET S1 == [S EXCEPT !.rooms = getOrCreate(@, roomCode)]
             S2 == [S1 EXCEPT !.rooms[roomCode].clients = Append(@, ws)]
             S3 == [S2 EXCEPT !.clientInfo[ws] = clientInfoOf(roomCode, ws)]
             S4 == send(S3, Out(ws, "connected", -1, -1, NoPayload), F)
             room == S4.rooms[roomCode]
             S5 == IF room.sender # NULL
                   THEN send(S4, Out(room.sender, "target_acquired", Len(room.clients), -1, NoPayload), F)
                   ELSE S4
         IN  broadcastClientCount(S5, roomCode, F)

handleClientJoin(S, ws, message, F) ==
    LET roomCode == message.roomCode IN
    IF ~validRoomCode(roomCode)
    THEN send(S, Out(ws, "error", -1, -1, NoPayload), F)
    ELSE LET S1 == [S EXCEPT !.rooms = getOrCreate(@, roomCode)]
             S2 == [S1 EXCEPT !.rooms[roomCode].clients = Append(@, ws)]
             S3 == [S2 EXCEPT !.clientInfo[ws] = clientInfoOf(roomCode, ws)]
             S4 == send(S3, Out(ws, "connected", -1, -1, NoPayload), F)
             S5 == broadcastClientCount(S4, roomCode, F)
             room == S5.rooms[roomCode]
         IN  IF room.sender # NULL
             THEN send(S5, Out(room.sender, "target_acquired", Len(room.clients), -1, NoPayload), F)
             ELSE S5

\* (mutant: the try/catch is around the loop, so the first failing send ends it)
RECURSIVE prankForEachAbort(_, _, _, _, _, _)
prankForEachAbort(S, clients, index, payload, deliveredCount, F) ==
    IF index > Len(clients) THEN [S |-> S, deliveredCount |-> deliveredCount]
    ELSE LET S1 == send(S, Out(clients[index], "prank_message", -1, -1, payload), F)
         IN  IF S1.threw
             THEN [S |-> [S1 EXCEPT !.threw = FALSE], deliveredCount |-> deliveredCount]
             ELSE prankForEachAbort(S1, clients, index + 1, payload, deliveredCount + 1, F)

\* room.clients.forEach with the try/catch inside: the send to the client at
\* index is attempted, deliveredCount++ runs only if it did not throw, and the
\* catch lets the loop go on. Yields the frame and deliveredCount.
RECURSIVE prankForEach(_, _, _, _, _, _)
prankForEach(S, clients, index, payload, deliveredCount, F) ==
    IF index > Len(clients) THEN [S |-> S, deliveredCount |-> deliveredCount]
    ELSE LET S1 == send(S, Out(clients[index], "prank_message", -1, -1, payload), F)
             dc == IF S1.threw THEN deliveredCount ELSE deliveredCount + 1
         IN  prankForEach([S1 EXCEPT !.threw = FALSE], clients, index + 1, payload, dc, F)

\* (mutant: any joined connection passes)
isJoined(info) == info # NoInfo

\* !(!clientInfo || clientInfo.type !== 'sender')
isSender(info) == info # NoInfo /\ info.type = "sender"

handlePrankMessage(S, ws, message, F) ==
    LET info == S.clientInfo[ws] IN
    IF ~isSender(info)
    THEN send(S, Out(ws, "error", -1, -1, NoPayload), F)
    ELSE IF info.roomCode \notin DOMAIN S.rooms
    THEN send(S, Out(ws, "error", -1, -1, NoPayload), F)
    ELSE IF Len(S.rooms[info.roomCode].clients) = 0
    THEN send(S, Out(ws, "error", -1, -1, NoPayload), F)
    \* message.payload.type in the console.log throws a TypeError without a payload
    ELSE IF message.payload = NoPayload
    THEN [S EXCEPT !.threw = TRUE]
    ELSE LET room == S.rooms[info.roomCode]
             r == prankForEach(S, room.clients, 1, message.payload, 0, F)
         IN  send(r.S, Out(ws, "prank_delivered", r.deliveredCount, Len(room.clients), NoPayload), F)

\* (mutant: the try/catch is around the loop, so the first failing send ends it)
RECURSIVE notifyForEachAbort(_, _, _, _)
notifyForEachAbort(S, clients, index, F) ==
    IF index > Len(clients) THEN S
    ELSE LET S1 == send(S, Out(clients[index], "sender_disconnected", -1, -1, NoPayload), F)
         IN  IF S1.threw THEN [S1 EXCEPT !.threw = FALSE]
             ELSE notifyForEachAbort(S1, clients, index + 1, F)

\* room.clients.forEach in the sender branch of handleDisconnection: every send
\* is inside its own try/catch.
RECURSIVE notifyForEach(_, _, _, _)
notifyForEach(S, clients, index, F) ==
    IF index > Len(clients) THEN S
    ELSE LET S1 == send(S, Out(clients[index], "sender_disconnected", -1, -1, NoPayload), F)
         IN  notifyForEach([S1 EXCEPT !.threw = FALSE], clients, index + 1, F)

\* room.clients.findIndex(client => client === clientInfo.ws): the first index
\* holding the handle (1-based here), 0 for JS's -1.
findIndex(clients, ws) ==
    IF \E i \in 1..Len(clients) : clients[i] = ws
    THEN CHOOSE i \in 1..Len(clients) :
             /\ clients[i] = ws
             /\ \A j \in 1..(i - 1) : clients[j] # ws
    ELSE 0

\* (mutant: the last element is removed, whatever the index)
spliceLast(clients, clientIndex) == SubSeq(clients, 1, Len(clients) - 1)

\* room.clients.splice(clientIndex, 1)
splice(clients, clientIndex) ==
    SubSeq(clients, 1, clientIndex - 1) \o SubSeq(clients, clientIndex + 1, Len(clients))

\* (mutant: the empty room is never deleted)
cleanUpSkipped(S, roomCode) == S

\* if (!room.sender && room.clients.length === 0) rooms.delete(info.roomCode)
cleanUp(S, roomCode) ==
    IF S.threw THEN S
    ELSE IF S.rooms[roomCode].sender = NULL /\ Len(S.rooms[roomCode].clients) = 0
    THEN [S EXCEPT !.rooms = deleteRoom(@, roomCode)]
    ELSE S

\* the 'sender' branch
senderGone(S, info, F) ==
    LET S1 == [S EXCEPT !.rooms[info.roomCode].sender = NULL]
    IN  notifyForEach(S1, S1.rooms[info.roomCode].clients, 1, F)

\* (mutant: target_lost is sent whatever the remaining count)
clientGoneAlwaysLost(S, ws, info, F) ==
    LET clientIndex == findIndex(S.rooms[info.roomCode].clients, S.clientInfo[ws].ws)
        S1 == IF clientIndex > 0
              THEN [S EXCEPT !.rooms[info.roomCode].clients = splice(@, clientIndex)]
              ELSE S
        S2 == broadcastClientCount(S1, info.roomCode, F)
        room == S2.rooms[info.roomCode]
    IN  IF room.sender # NULL
        THEN send(S2, Out(room.sender, "target_lost", -1, -1, NoPayload), F)
        ELSE S2

\* the 'client' branch; clientInfo.ws is read from the closure variable
clientGone(S, ws, info, F) ==
    LET clientIndex == findIndex(S.rooms[info.roomCode].clients, S.clientInfo[ws].ws)
        S1 == IF clientIndex > 0
              THEN [S EXCEPT !.rooms[info.roomCode].clients = splice(@, clientIndex)]
              ELSE S
        S2 == broadcastClientCount(S1, info.roomCode, F)
        room == S2.rooms[info.roomCode]
    IN  IF room.sender # NULL
        THEN IF Len(room.clients) > 0
             THEN send(S2, Out(room.sender, "target_update", Len(room.clients), -1, NoPayload), F)
             ELSE send(S2, Out(room.sender, "target_lost", -1, -1, NoPayload), F)
        ELSE S2

handleDisconnection(S, ws, info, F) ==
    IF info.roomCode \notin DOMAIN S.rooms THEN S
    ELSE LET S1 == IF info.type = "sender" THEN senderGone(S, info, F)
                   ELSE IF info.type = "client" THEN clientGone(S, ws, info, F)
                   ELSE S
         IN  cleanUp(S1, info.roomCode)

\* ------------------------------------------------------ the event handlers
\* What arrives on a connection: JSON text of a message, or text JSON.parse
\* rejects.
Msg(type, roomCode, payload) == [type |-> type, roomCode |-> roomCode, payload |-> payload]
NotJSON == Msg("<not JSON>", "", NoPayload)

\* (mutant: a ping is answered only on a joined connection)
handlePingJoinedOnly(S, ws, F) ==
    IF S.clientInfo[ws] = NoInfo THEN S ELSE send(S, Out(ws, "pong", -1, -1, NoPayload), F)

\* case 'ping': ws.send(JSON.stringify({ type: 'pong' }))
handlePing(S, ws, F) == send(S, Out(ws, "pong", -1, -1, NoPayload), F)

\* (mutant: an unknown type is answered with an error)
handleUnknownReply(S, ws, F) == send(S, Out(ws, "error", -1, -1, NoPayload), F)

\* default: console.log only
handleUnknown(S, ws, F) == S

\* the switch on message.type
dispatch(S, ws, message, F) ==
    CASE message.type = "sender_join"   -> handleSenderJoin(S, ws, message, F)
      [] message.type = "client_join"   -> handleClientJoin(S, ws, message, F)
      [] message.type = "prank_message" -> handlePrankMessage(S, ws, message, F)
      [] message.type = "ping"          -> handlePing(S, ws, F)
      [] OTHER                          -> handleUnknown(S, ws, F)

\* ws.on('message'): try { JSON.parse; switch } catch { log }. Yields the frame
\* with threw telling whether the catch ran.
onMessage(S, ws, data, F) ==
    IF data = NotJSON THEN [S EXCEPT !.threw = TRUE]
    ELSE dispatch(S, ws, data, F)

\* ws.on('close'): if (clientInfo) handleDisconnection(clientInfo), no try/catch.
onClose(S, ws, F) ==
    IF S.clientInfo[ws] # NoInfo
    THEN handleDisconnection(S, ws, S.clientInfo[ws], F)
    ELSE S

Event(kind, ws, message) ==
    [kind |-> kind, ws |-> ws, type |-> message.type, roomCode |-> message.roomCode,
     payload |-> message.payload]
NoMsg == Msg("", "", NoPayload)

\* An exception that leaves a listener is an uncaught exception: the process exits.
Running == exc # "uncaught"

TypeOK ==
    /\ conn \in [Conns -> {"idle", "open", "closed"}]
    /\ DOMAIN clientInfo = Conns
    /\ \A c \in Conns : clientInfo[c].type \in {"null", "sender", "client"}
    /\ DOMAIN rooms \subseteq RoomCodes
    /\ \A k \in DOMAIN rooms :
          /\ rooms[k].sender \in Conns \cup {NULL}
          /\ \A i \in 1..Len(rooms[k].clients) : rooms[k].clients[i] \in Conns
    /\ exc \in {"none", "caught", "uncaught"}

\* The observer of a clean run (no close event processed, no send failed so
\* far): joins counts the client_join messages carrying the secret, lastTo and
\* lastCount are the recipient and the count of the latest client_count sent.
\* Once the run is no longer clean nothing is recorded.
Tainted == [clean |-> FALSE, joins |-> -1, lastTo |-> NULL, lastCount |-> -1]

RECURSIVE lastClientCount(_, _)
lastClientCount(msgs, dflt) ==
    IF msgs = <<>> THEN dflt
    ELSE IF msgs[Len(msgs)].type = "client_count"
    THEN [to |-> msgs[Len(msgs)].to, count |-> msgs[Len(msgs)].count]
    ELSE lastClientCount(SubSeq(msgs, 1, Len(msgs) - 1), dflt)

observe(kind, message, msgs) ==
    IF ~run.clean \/ kind = "close" \/ \E i \in 1..Len(msgs) : ~msgs[i].ok
    THEN Tainted
    ELSE LET last == lastClientCount(msgs, [to |-> run.lastTo, count |-> run.lastCount])
         IN  [clean |-> TRUE,
              joins |-> IF message.type = "client_join" /\ message.roomCode = PRANK_ROOM_CODE
                        THEN run.joins + 1 ELSE run.joins,
              lastTo |-> last.to, lastCount |-> last.count]

Snapshot == [rooms |-> rooms, clientInfo |-> clientInfo]

Init ==
    /\ pre = [rooms |-> EmptyRooms, clientInfo |-> [c \in Conns |-> NoInfo]]
    /\ run = [clean |-> TRUE, joins |-> 0, lastTo |-> NULL, lastCount |-> -1]
    /\ conn = [c \in Conns |-> "idle"]
    /\ clientInfo = [c \in Conns |-> NoInfo]
    /\ rooms = EmptyRooms
    /\ ev = Event("start", NULL, NoMsg)
    /\ sent = <<>>
    /\ exc = "none"

\* wss.on('connection'): a new handle with clientInfo = null. Handles are
\* handed out in order (they are interchangeable identities).
Connect(c) ==
    /\ Running
    /\ conn[c] = "idle"
    /\ \A d \in Conns : d < c => conn[d] # "idle"
    /\ conn' = [conn EXCEPT ![c] = "open"]
    /\ ev' = Event("connection", c, NoMsg)
    /\ sent' = <<>>
    /\ exc' = "none"
    /\ pre' = Snapshot
    /\ UNCHANGED <<clientInfo, rooms, run>>

\* A 'message' event on an open connection, processed to completion.
Receive(c, data, F) ==
    /\ Running
    /\ conn[c] = "open"
    /\ \E S \in {onMessage(Frame(rooms, clientInfo), c, data, F)} :
           /\ rooms' = S.rooms
           /\ clientInfo' = S.clientInfo
           /\ sent' = S.sent
           /\ exc' = IF S.threw THEN "caught" ELSE "none"
           /\ run' = observe("message", data, S.sent)
    /\ ev' = Event("message", c, data)
    /\ pre' = Snapshot
    /\ UNCHANGED conn

\* The one room there can be (only PRANK_ROOM_CODE passes a join), or an empty
\* record when the registry is empty.
Room(r) == IF PRANK_ROOM_CODE \in DOMAIN r THEN r[PRANK_ROOM_CODE] ELSE NewRoom

\* Which sends fail during an event is the environment's choice, F. A failing
\* send to a handle the handler never sends to cannot be observed, so F ranges
\* over the handles the handler can send to.
Handles(seq) == {seq[i] : i \in 1..Len(seq)}
\* a join: the joining connection, and for client_join the room's sender
JoinRecipients(c, message) ==
    IF message.type = "client_join" /\ validRoomCode(message.roomCode)
    THEN {c} \cup ({Room(rooms).sender} \ {NULL})
    ELSE {c}
\* a prank_message: the room's clients and the connection itself
PrankRecipients(c) ==
    IF clientInfo[c].type = "sender" THEN {c} \cup Handles(Room(rooms).clients) ELSE {c}
\* a close: the room's clients (sender branch) or its sender (client branch)
CloseRecipients(c) ==
    IF clientInfo[c].type = "sender" THEN Handles(Room(rooms).clients)
    ELSE ({Room(rooms).sender} \ {NULL})

SenderJoin(c) ==
    \E roomCode \in RoomCodes :
        LET message == Msg("sender_join", roomCode, NoPayload)
        IN  \E F \in SUBSET JoinRecipients(c, message) : Receive(c, message, F)

ClientJoin(c) ==
    \E roomCode \in RoomCodes :
        LET message == Msg("client_join", roomCode, NoPayload)
        IN  \* the array is unbounded in the code: the model stops joins at MaxClients
            /\ validRoomCode(roomCode) => Len(Room(rooms).clients) < MaxClients
            /\ \E F \in SUBSET JoinRecipients(c, message) : Receive(c, message, F)

PrankMessage(c) ==
    \E payload \in Payloads, F \in SUBSET PrankRecipients(c) :
        Receive(c, Msg("prank_message", "", payload), F)

Ping(c) ==
    \E F \in SUBSET {c} : Receive(c, Msg("ping", "", NoPayload), F)

UnknownType(c) ==
    Receive(c, Msg("something_else", "", NoPayload), {})

Malformed(c) ==
    Receive(c, NotJSON, {})

\* A 'close' event: the last event of a connection.
Close(c) ==
    /\ Running
    /\ conn[c] = "open"
    /\ \E F \in SUBSET CloseRecipients(c) :
          \E S \in {onClose(Frame(rooms, clientInfo), c, F)} :
              /\ rooms' = S.rooms
              /\ clientInfo' = S.clientInfo
              /\ sent' = S.sent
              /\ exc' = IF S.threw THEN "uncaught" ELSE "none"
              /\ run' = observe("close", NoMsg, S.sent)
    /\ conn' = [conn EXCEPT ![c] = "closed"]
    /\ ev' = Event("close", c, NoMsg)
    /\ pre' = Snapshot

\* ws.on('error'): logs only.
SocketError(c) ==
    /\ Running
    /\ conn[c] = "open"
    /\ ev' = Event("error", c, NoMsg)
    /\ sent' = <<>>
    /\ exc' = "none"
    /\ pre' = Snapshot
    /\ UNCHANGED <<conn, clientInfo, rooms, run>>

Next ==
    \E c \in Conns :
        \/ Connect(c)
        \/ SenderJoin(c)
        \/ ClientJoin(c)
        \/ PrankMessage(c)
        \/ Ping(c)
        \/ UnknownType(c)
        \/ Malformed(c)
        \/ Close(c)
        \/ SocketError(c)

Spec == Init /\ [][Next]_vars

\* ------------------------------------------------------------ properties
PreRoom == Room(pre.rooms)
CurRoom == Room(rooms)
HasRoom(r) == PRANK_ROOM_CODE \in DOMAIN r
IsMessage(type) == ev.kind = "message" /\ ev.type = type
\* the number of positions of seq that hold x
Occurrences(seq, x) == Cardinality({i \in 1..Len(seq) : seq[i] = x})
\* seq without its position i
Without(seq, i) == [j \in 1..(Len(seq) - 1) |-> IF j < i THEN seq[j] ELSE seq[j + 1]]

\* a join carrying the secret
JoinedAs(type) == IsMessage(type) /\ ev.roomCode = PRANK_ROOM_CODE

\* C1: after every event a room is in the registry only if it has a sender or
\* at least one client (a room with neither is never kept); a handle that has
\* just been registered as sender or client is in a room of the registry; and
\* a room with a sender and no clients is gone once that sender's close has
\* been processed.
C1_RoomIffOccupied ==
    /\ \A k \in DOMAIN rooms : rooms[k].sender # NULL \/ rooms[k].clients # <<>>
    /\ JoinedAs("sender_join") => (HasRoom(rooms) /\ CurRoom.sender = ev.ws)
    /\ JoinedAs("client_join") => (HasRoom(rooms) /\ ev.ws \in Handles(CurRoom.clients))
    /\ ( /\ ev.kind = "close"
         /\ HasRoom(pre.rooms)
         /\ PreRoom.sender = ev.ws
         /\ PreRoom.clients = <<>> )
       => ~HasRoom(rooms)

C1_Witness ==
    /\ ev.kind = "close"
    /\ HasRoom(pre.rooms)
    /\ PreRoom.sender = ev.ws
    /\ PreRoom.clients = <<>>
    /\ DOMAIN rooms = {}

\* C2: a session's role is set once: no event changes the clientInfo of a
\* connection that has already joined.
C2_RoleSetOnce ==
    \A c \in Conns : pre.clientInfo[c] # NoInfo => clientInfo[c] = pre.clientInfo[c]

\* C3: every handle occurs at most once in the registry: never twice in
\* clients, never both as sender and in clients.
C3_HandleAtMostOnce ==
    \A k \in DOMAIN rooms : \A c \in Conns :
        Occurrences(rooms[k].clients, c) + (IF rooms[k].sender = c THEN 1 ELSE 0) <= 1

\* C4: last joiner wins and stays: a successful sender_join makes the joiner the
\* room's sender, and the sender b of a room stays its sender while b is open,
\* unless the event is another connection's successful sender_join.
C4_LastJoinerStays ==
    /\ JoinedAs("sender_join") => (HasRoom(rooms) /\ CurRoom.sender = ev.ws)
    /\ \A b \in Conns :
          ( /\ HasRoom(pre.rooms)
            /\ PreRoom.sender = b
            /\ conn[b] = "open"
            /\ ~(JoinedAs("sender_join") /\ ev.ws # b) )
          => (HasRoom(rooms) /\ CurRoom.sender = b)

\* C5: a join whose roomCode is not the secret makes exactly one send, an error
\* to the joining connection, and changes neither the registry nor any session.
C5_BadSecretRejected ==
    ( /\ ev.kind = "message"
      /\ ev.type \in {"sender_join", "client_join"}
      /\ ev.roomCode # PRANK_ROOM_CODE )
    => /\ Len(sent) = 1
       /\ sent[1].to = ev.ws
       /\ sent[1].type = "error"
       /\ rooms = pre.rooms
       /\ clientInfo = pre.clientInfo

\* a rejected join on a connection that had joined, with a room in the registry
C5_Witness ==
    /\ ev.kind = "message"
    /\ ev.type \in {"sender_join", "client_join"}
    /\ ev.roomCode # PRANK_ROOM_CODE
    /\ HasRoom(pre.rooms)
    /\ pre.clientInfo[ev.ws] # NoInfo
    /\ sent[1].type = "error"

\* the sends of the last event that carry the given type
OfType(type) == SelectSeq(sent, LAMBDA m : m.type = type)
\* a prank_message with a payload, from a sender whose room has clients
RelayAccepted ==
    /\ IsMessage("prank_message")
    /\ ev.payload # NoPayload
    /\ pre.clientInfo[ev.ws].type = "sender"
    /\ HasRoom(pre.rooms)
    /\ PreRoom.clients # <<>>

\* C6: in a run with no close event and no failed send, in which run.joins
\* client_join messages with the secret have been processed (N), the latest
\* client_count sent went to the room's sender and carries N; and a
\* prank_message with a payload from that sender, its role still sender, is
\* sent to exactly the N clients, one send each, with a receipt N/N (for N = 0
\* nothing is relayed).
C6_CountAndRelayAreN ==
    (run.clean /\ HasRoom(rooms) /\ CurRoom.sender # NULL)
    => /\ run.lastTo = CurRoom.sender
       /\ run.lastCount = run.joins
       /\ ( /\ IsMessage("prank_message")
            /\ ev.payload # NoPayload
            /\ ev.ws = CurRoom.sender
            /\ clientInfo[ev.ws].type = "sender" )
          => /\ Len(OfType("prank_message")) = run.joins
             /\ \A i \in 1..run.joins :
                   /\ sent[i].type = "prank_message"
                   /\ sent[i].to = CurRoom.clients[i]
                   /\ sent[i].payload = ev.payload
             /\ run.joins > 0 =>
                   /\ Len(sent) = run.joins + 1
                   /\ sent[run.joins + 1].type = "prank_delivered"
                   /\ sent[run.joins + 1].to = ev.ws
                   /\ sent[run.joins + 1].count = run.joins
                   /\ sent[run.joins + 1].total = run.joins

\* a sender joined first, a client joined after it (N = 1), the sender relays
C6_Witness ==
    /\ run.clean
    /\ run.joins = 1
    /\ run.lastCount = 1
    /\ IsMessage("prank_message")
    /\ ev.ws = CurRoom.sender
    /\ ev.ws \notin Handles(CurRoom.clients)
    /\ Len(sent) = 2
    /\ sent[2].type = "prank_delivered"
    /\ sent[2].count = 1

\* C7: a fan-out over the N clients of the room attempts one send per client in
\* join order whichever of them fail, and the receipt that follows reports the
\* number of sends that did not fail as delivered and N as total.
C7_PartialFailureFanOut ==
    RelayAccepted =>
        LET N == Len(PreRoom.clients)
            delivered == Cardinality({i \in 1..N : sent[i].ok})
        IN  /\ Len(sent) = N + 1
            /\ \A i \in 1..N :
                  /\ sent[i].type = "prank_message"
                  /\ sent[i].to = PreRoom.clients[i]
                  /\ sent[i].payload = ev.payload
            /\ sent[N + 1].type = "prank_delivered"
            /\ sent[N + 1].to = ev.ws
            /\ sent[N + 1].count = delivered
            /\ sent[N + 1].total = N

\* N = 2, the send to the first client fails (k = 1), the second still gets it
C7_Witness ==
    /\ RelayAccepted
    /\ Len(PreRoom.clients) = 2
    /\ ~sent[1].ok
    /\ sent[2].ok
    /\ sent[2].type = "prank_message"
    /\ sent[3].type = "prank_delivered"
    /\ sent[3].count = 1
    /\ sent[3].total = 2

\* a close of a connection whose role is client and which is not the last
\* element of clients
EarlierTargetCloses ==
    /\ ev.kind = "close"
    /\ pre.clientInfo[ev.ws].type = "client"
    /\ ~(PreRoom.clients # <<>> /\ PreRoom.clients[Len(PreRoom.clients)] = ev.ws)

C9_NoExceptionEscapes == exc # "uncaught"

\* C10: a prank_message from a connection whose role is not sender, or whose
\* room is not in the registry, or whose room has no clients, makes exactly one
\* send, an error to that connection (so no prank_message and no receipt), and
\* changes neither the registry nor any session.
C10_RelayRejected ==
    ( /\ IsMessage("prank_message")
      /\ \/ pre.clientInfo[ev.ws].type # "sender"
         \/ ~HasRoom(pre.rooms)
         \/ PreRoom.clients = <<>> )
    => /\ Len(sent) = 1
       /\ sent[1].type = "error"
       /\ sent[1].to = ev.ws
       /\ rooms = pre.rooms
       /\ clientInfo = pre.clientInfo

\* a client tries to relay in a room that has a sender and clients
C10_Witness ==
    /\ IsMessage("prank_message")
    /\ pre.clientInfo[ev.ws].type = "client"
    /\ PreRoom.sender # NULL
    /\ PreRoom.sender # ev.ws
    /\ sent[1].type = "error"
    /\ rooms = pre.rooms

\* C11: every prank_message from a connection whose role is sender and whose
\* room has clients, with or without a payload, is answered by exactly one
\* prank_delivered, sent to that connection after one send attempt per client.
C11_ExactlyOneReceipt ==
    ( /\ IsMessage("prank_message")
      /\ pre.clientInfo[ev.ws].type = "sender"
      /\ HasRoom(pre.rooms)
      /\ PreRoom.clients # <<>> )
    => /\ Len(OfType("prank_delivered")) = 1
       /\ Len(sent) = Len(PreRoom.clients) + 1
       /\ sent[Len(sent)].type = "prank_delivered"
       /\ sent[Len(sent)].to = ev.ws

\* What a send says, without its outcome.
Shape(m) == [to |-> m.to, type |-> m.type, count |-> m.count]
Say(to, type, count) == [to |-> to, type |-> type, count |-> count]
\* The sends of the last event are those of expected, in that order: all of them
\* when none of the sends before the last one failed, and otherwise those up to
\* the first send that failed (a throwing send ends the handler).
SentIs(expected) ==
    /\ Len(sent) <= Len(expected)
    /\ \A i \in 1..Len(sent) : Shape(sent[i]) = expected[i]
    /\ \A i \in 1..(Len(sent) - 1) : sent[i].ok
    /\ Len(sent) < Len(expected) => (Len(sent) >= 1 /\ ~sent[Len(sent)].ok)
AllSent == \A i \in 1..Len(sent) : sent[i].ok

\* C12: on a client_join with the secret the joining connection is sent
\* connected first; then, if and only if the room has a sender, that sender is
\* sent client_count with the new length of clients and then target_acquired;
\* without a sender nothing is sent to any other connection.
C12_TargetJoinNotifications ==
    JoinedAs("client_join") =>
        LET n == Len(CurRoom.clients)
            s == PreRoom.sender
        IN  /\ n = Len(PreRoom.clients) + 1
            /\ CurRoom.sender = s
            /\ IF s # NULL
               THEN SentIs(<<Say(ev.ws, "connected", -1),
                             Say(s, "client_count", n),
                             Say(s, "target_acquired", n)>>)
               ELSE SentIs(<<Say(ev.ws, "connected", -1)>>)

\* a client joins a room whose sender is another connection: three sends
C12_Witness ==
    /\ JoinedAs("client_join")
    /\ PreRoom.sender # NULL
    /\ PreRoom.sender # ev.ws
    /\ Len(sent) = 3
    /\ AllSent
    /\ sent[2].type = "client_count"
    /\ sent[2].count = 1
    /\ sent[3].type = "target_acquired"

\* the close of a connection whose role is client, in a room that has a sender
TargetClosesWithSender ==
    /\ ev.kind = "close"
    /\ pre.clientInfo[ev.ws].type = "client"
    /\ HasRoom(pre.rooms)
    /\ PreRoom.sender # NULL

\* C13: when a client closes and the room has a sender, the sender is sent
\* client_count with the remaining length of clients and then target_update if
\* that length is positive, target_lost if it is 0; target_lost is never sent
\* while clients is non-empty; the room stays in the registry with its sender.
C13_TargetCloseNotifications ==
    TargetClosesWithSender =>
        LET n == Len(CurRoom.clients)
            s == PreRoom.sender
        IN  /\ HasRoom(rooms)
            /\ CurRoom.sender = s
            /\ n = Len(PreRoom.clients) - 1
            /\ SentIs(<<Say(s, "client_count", n),
                        IF n > 0 THEN Say(s, "target_update", n)
                                 ELSE Say(s, "target_lost", -1)>>)
            /\ OfType("target_lost") # <<>> => CurRoom.clients = <<>>

\* the only client closes: count 0, then target_lost, the room is kept
C13_Witness ==
    /\ TargetClosesWithSender
    /\ PreRoom.sender # ev.ws
    /\ Len(sent) = 2
    /\ AllSent
    /\ sent[1].type = "client_count"
    /\ sent[1].count = 0
    /\ sent[2].type = "target_lost"
    /\ HasRoom(rooms)

\* C14: on a sender_join with the secret the joining connection becomes the
\* room's sender and is sent client_count with the length of clients and then
\* target_acquired if clients is non-empty, waiting_for_target if it is empty;
\* every send goes to the joining connection and clients is unchanged.
C14_ControllerJoinNotifications ==
    JoinedAs("sender_join") =>
        LET n == Len(PreRoom.clients)
        IN  /\ HasRoom(rooms)
            /\ CurRoom.sender = ev.ws
            /\ CurRoom.clients = PreRoom.clients
            /\ \A i \in 1..Len(sent) : sent[i].to = ev.ws
            /\ SentIs(<<Say(ev.ws, "client_count", n),
                        IF n > 0 THEN Say(ev.ws, "target_acquired", n)
                                 ELSE Say(ev.ws, "waiting_for_target", -1)>>)

\* a sender joins a room in which another connection is waiting as client
C14_Witness ==
    /\ JoinedAs("sender_join")
    /\ Len(PreRoom.clients) = 1
    /\ ev.ws \notin Handles(PreRoom.clients)
    /\ Len(sent) = 2
    /\ AllSent
    /\ sent[1].type = "client_count"
    /\ sent[1].count = 1
    /\ sent[2].type = "target_acquired"

\* the close of a connection whose role is sender
ControllerCloses == ev.kind = "close" /\ pre.clientInfo[ev.ws].type = "sender"

\* C15: when a connection whose role is sender closes, the room's sender
\* becomes absent and every position of clients gets one sender_disconnected,
\* in order, whichever of these sends fail; clients itself is unchanged and no
\* exception leaves the handler.
C15_ControllerCloseNotifiesAll ==
    ControllerCloses =>
        /\ CurRoom.sender = NULL
        /\ CurRoom.clients = PreRoom.clients
        /\ Len(sent) = Len(PreRoom.clients)
        /\ \A i \in 1..Len(sent) :
              Shape(sent[i]) = Say(PreRoom.clients[i], "sender_disconnected", -1)
        /\ exc = "none"

\* two clients, the send to the first fails, the second is still notified
C15_Witness ==
    /\ ControllerCloses
    /\ Len(PreRoom.clients) = 2
    /\ Len(sent) = 2
    /\ ~sent[1].ok
    /\ sent[2].ok
    /\ sent[2].type = "sender_disconnected"
    /\ CurRoom.sender = NULL
    /\ CurRoom.clients = PreRoom.clients

\* C16: a ping makes exactly one send, a pong to the pinging connection, and
\* changes neither the registry nor any session, whatever the session's role.
C16_PingPong ==
    IsMessage("ping") =>
        /\ Len(sent) = 1
        /\ Shape(sent[1]) = Say(ev.ws, "pong", -1)
        /\ rooms = pre.rooms
        /\ clientInfo = pre.clientInfo

\* a ping on a connection that has not joined, while a room exists
C16_Witness ==
    /\ IsMessage("ping")
    /\ clientInfo[ev.ws] = NoInfo
    /\ HasRoom(rooms)
    /\ sent[1].type = "pong"
    /\ sent[1].ok

\* a message of a type the switch does not know, or text that is not JSON
Ignored == ev.kind = "message" /\ ev.type \in {"something_else", NotJSON.type}

\* C17: a message of an unknown type or an unparseable one makes no send and
\* changes neither the registry nor any session; the connection stays open and
\* the server goes on handling its messages.
C17_IgnoredMessage ==
    Ignored =>
        /\ sent = <<>>
        /\ rooms = pre.rooms
        /\ clientInfo = pre.clientInfo
        /\ conn[ev.ws] = "open"
        /\ exc # "uncaught"
        /\ ENABLED Ping(ev.ws)

\* unparseable text on a connection that has joined as sender
C17_Witness ==
    /\ Ignored
    /\ ev.type = NotJSON.type
    /\ clientInfo[ev.ws].type = "sender"
    /\ CurRoom.sender = ev.ws
    /\ sent = <<>>

\* C18: every handle the registry holds belongs to a connection whose close
\* has not been processed, and once every connection has closed the registry
\* is empty.
C18_NoClosedHandleKept ==
    /\ \A k \in DOMAIN rooms :
          /\ rooms[k].sender # NULL => conn[rooms[k].sender] # "closed"
          /\ \A i \in 1..Len(rooms[k].clients) : conn[rooms[k].clients[i]] # "closed"
    /\ (\A c \in Conns : conn[c] = "closed") => DOMAIN rooms = {}

\* C19: a prank_message is sent to clients only while processing a
\* prank_message of the connection that is the room's sender at that moment.
C19_OnlyCurrentControllerRelays ==
    OfType("prank_message") # <<>> =>
        /\ IsMessage("prank_message")
        /\ HasRoom(pre.rooms)
        /\ PreRoom.sender = ev.ws

\* ------------------------------------- the single-target variant (server.js)
\* server.js is the same server with one client slot per room instead of the
\* clients array. Its model runs over the same variables; send, Frame, Out,
\* validRoomCode, deleteRoom, senderInfo, Msg and Event are the same code in
\* both files. The observer run belongs to the multi-target variant and is
\* left alone here.

\* { sender: null, client: null }
Single_NewRoom == [sender |-> NULL, client |-> NULL]
\* rooms = new Map()
Single_EmptyRooms == [k \in {} |-> Single_NewRoom]
\* clientInfo = { type: 'client', roomCode }
Single_clientInfoOf(roomCode) == [type |-> "client", roomCode |-> roomCode, ws |-> NULL]

\* if (!rooms.has(roomCode)) rooms.set(roomCode, { sender: null, client: null })
Single_getOrCreate(r, roomCode) ==
    IF roomCode \in DOMAIN r THEN r ELSE r @@ (roomCode :> Single_NewRoom)

Single_handleSenderJoin(S, ws, message, F) ==
    LET roomCode == message.roomCode IN
    IF ~validRoomCode(roomCode)
    THEN send(S, Out(ws, "error", -1, -1, NoPayload), F)
    ELSE LET S1 == [S EXCEPT !.rooms = Single_getOrCreate(@, roomCode)]
             S2 == [S1 EXCEPT !.rooms[roomCode].sender = ws]
             S3 == [S2 EXCEPT !.clientInfo[ws] = senderInfo(roomCode)]
         IN  IF S3.rooms[roomCode].client # NULL
             THEN send(S3, Out(ws, "target_acquired", -1, -1, NoPayload), F)
             ELSE send(S3, Out(ws, "waiting_for_target", -1, -1, NoPayload), F)

Single_handleClientJoin(S, ws, message, F) ==
    LET roomCode == message.roomCode IN
    IF ~validRoomCode(roomCode)
    THEN send(S, Out(ws, "error", -1, -1, NoPayload), F)
    ELSE LET S1 == [S EXCEPT !.rooms = Single_getOrCreate(@, roomCode)]
             \* room.client = ws, whoever holds the slot
             S2 == [S1 EXCEPT !.rooms[roomCode].client = ws]
             S3 == [S2 EXCEPT !.clientInfo[ws] = Single_clientInfoOf(roomCode)]
             S4 == send(S3, Out(ws, "connected", -1, -1, NoPayload), F)
         IN  IF S4.rooms[roomCode].sender # NULL
             THEN send(S4, Out(S4.rooms[roomCode].sender, "target_acquired", -1, -1, NoPayload), F)
             ELSE S4

Single_handlePrankMessage(S, ws, message, F) ==
    LET info == S.clientInfo[ws] IN
    IF info.type # "sender"
    THEN send(S, Out(ws, "error", -1, -1, NoPayload), F)
    ELSE IF info.roomCode \notin DOMAIN S.rooms
    THEN send(S, Out(ws, "error", -1, -1, NoPayload), F)
    ELSE IF S.rooms[info.roomCode].client = NULL
    THEN send(S, Out(ws, "error", -1, -1, NoPayload), F)
    \* console.log(..., message.payload.type): a TypeError when payload is absent
    ELSE IF message.payload = NoPayload
    THEN [S EXCEPT !.threw = TRUE]
    ELSE LET S1 == send(S, Out(S.rooms[info.roomCode].client, "prank_message", -1, -1,
                               message.payload), F)
         IN  send(S1, Out(ws, "prank_delivered", -1, -1, NoPayload), F)

\* if (!room.sender && !room.client) rooms.delete(info.roomCode); not reached
\* when a send above it threw
Single_cleanUp(S, roomCode) ==
    IF S.threw THEN S
    ELSE IF S.rooms[roomCode].sender = NULL /\ S.rooms[roomCode].client = NULL
    THEN [S EXCEPT !.rooms = deleteRoom(@, roomCode)]
    ELSE S

\* handleDisconnection(info): the branch is chosen by info.type alone; neither
\* branch compares the slot it clears with the closing connection.
Single_handleDisconnection(S, info, F) ==
    LET roomCode == info.roomCode IN
    IF roomCode \notin DOMAIN S.rooms THEN S
    ELSE IF info.type = "sender"
    THEN LET S1 == [S EXCEPT !.rooms[roomCode].sender = NULL]
             S2 == IF S1.rooms[roomCode].client # NULL
                   THEN send(S1, Out(S1.rooms[roomCode].client, "sender_disconnected",
                                     -1, -1, NoPayload), F)
                   ELSE S1
         IN  Single_cleanUp(S2, roomCode)
    ELSE IF info.type = "client"
    THEN LET S1 == [S EXCEPT !.rooms[roomCode].client = NULL]
             S2 == IF S1.rooms[roomCode].sender # NULL
                   THEN send(S1, Out(S1.rooms[roomCode].sender, "target_lost",
                                     -1, -1, NoPayload), F)
                   ELSE S1
         IN  Single_cleanUp(S2, roomCode)
    ELSE Single_cleanUp(S, roomCode)

\* the switch on message.type
Single_dispatch(S, ws, message, F) ==
    CASE message.type = "sender_join"   -> Single_handleSenderJoin(S, ws, message, F)
      [] message.type = "client_join"   -> Single_handleClientJoin(S, ws, message, F)
      [] message.type = "prank_message" -> Single_handlePrankMessage(S, ws, message, F)
      [] message.type = "ping"          -> send(S, Out(ws, "pong", -1, -1, NoPayload), F)
      [] OTHER                          -> S

\* ws.on('message'): JSON.parse and the switch inside one try/catch
Single_onMessage(S, ws, data, F) ==
    IF data = NotJSON THEN [S EXCEPT !.threw = TRUE]
    ELSE Single_dispatch(S, ws, data, F)

\* ws.on('close'): if (clientInfo) handleDisconnection(clientInfo), no try/catch
Single_onClose(S, ws, F) ==
    IF S.clientInfo[ws] # NoInfo
    THEN Single_handleDisconnection(S, S.clientInfo[ws], F)
    ELSE S

\* The one room there can be, or an empty record when the registry is empty.
Single_Room(r) == IF PRANK_ROOM_CODE \in DOMAIN r THEN r[PRANK_ROOM_CODE] ELSE Single_NewRoom

Single_Init ==
    /\ pre = [rooms |-> Single_EmptyRooms, clientInfo |-> [c \in Conns |-> NoInfo]]
    /\ run = [clean |-> TRUE, joins |-> 0, lastTo |-> NULL, lastCount |-> -1]
    /\ conn = [c \in Conns |-> "idle"]
    /\ clientInfo = [c \in Conns |-> NoInfo]
    /\ rooms = Single_EmptyRooms
    /\ ev = Event("start", NULL, NoMsg)
    /\ sent = <<>>
    /\ exc = "none"

\* wss.on('connection')
Single_Connect(c) ==
    /\ Running
    /\ conn[c] = "idle"
    /\ \A d \in Conns : d < c => conn[d] # "idle"
    /\ conn' = [conn EXCEPT ![c] = "open"]
    /\ ev' = Event("connection", c, NoMsg)
    /\ sent' = <<>>
    /\ exc' = "none"
    /\ pre' = Snapshot
    /\ UNCHANGED <<clientInfo, rooms, run>>

\* A 'message' event on an open connection, processed to completion.
Single_Receive(c, data, F) ==
    /\ Running
    /\ conn[c] = "open"
    /\ \E S \in {Single_onMessage(Frame(rooms, clientInfo), c, data, F)} :
           /\ rooms' = S.rooms
           /\ clientInfo' = S.clientInfo
           /\ sent' = S.sent
           /\ exc' = IF S.threw THEN "caught" ELSE "none"
    /\ ev' = Event("message", c, data)
    /\ pre' = Snapshot
    /\ UNCHANGED <<conn, run>>

\* The handles each handler can send to (the failing set ranges over them).
Single_JoinRecipients(c, message) ==
    IF message.type = "client_join" /\ validRoomCode(message.roomCode)
    THEN {c} \cup ({Single_Room(rooms).sender} \ {NULL})
    ELSE {c}
Single_PrankRecipients(c) ==
    IF clientInfo[c].type = "sender" THEN {c} \cup ({Single_Room(rooms).client} \ {NULL})
    ELSE {c}
Single_CloseRecipients(c) ==
    IF clientInfo[c].type = "sender" THEN {Single_Room(rooms).client} \ {NULL}
    ELSE {Single_Room(rooms).sender} \ {NULL}

Single_SenderJoin(c) ==
    \E roomCode \in RoomCodes :
        LET message == Msg("sender_join", roomCode, NoPayload)
        IN  \E F \in SUBSET Single_JoinRecipients(c, message) : Single_Receive(c, message, F)

Single_ClientJoin(c) ==
    \E roomCode \in RoomCodes :
        LET message == Msg("client_join", roomCode, NoPayload)
        IN  \E F \in SUBSET Single_JoinRecipients(c, message) : Single_Receive(c, message, F)

Single_PrankMessage(c) ==
    \E payload \in Payloads, F \in SUBSET Single_PrankRecipients(c) :
        Single_Receive(c, Msg("prank_message", "", payload), F)

Single_Ping(c) ==
    \E F \in SUBSET {c} : Single_Receive(c, Msg("ping", "", NoPayload), F)

Single_UnknownType(c) ==
    Single_Receive(c, Msg("something_else", "", NoPayload), {})

Single_Malformed(c) ==
    Single_Receive(c, NotJSON, {})

\* A 'close' event: the last event of a connection.
Single_Close(c) ==
    /\ Running
    /\ conn[c] = "open"
    /\ \E F \in SUBSET Single_CloseRecipients(c) :
          \E S \in {Single_onClose(Frame(rooms, clientInfo), c, F)} :
              /\ rooms' = S.rooms
              /\ clientInfo' = S.clientInfo
              /\ sent' = S.sent
              /\ exc' = IF S.threw THEN "uncaught" ELSE "none"
    /\ conn' = [conn EXCEPT ![c] = "closed"]
    /\ ev' = Event("close", c, NoMsg)
    /\ pre' = Snapshot
    /\ UNCHANGED run

\* ws.on('error'): logs only.
Single_SocketError(c) ==
    /\ Running
    /\ conn[c] = "open"
    /\ ev' = Event("error", c, NoMsg)
    /\ sent' = <<>>
    /\ exc' = "none"
    /\ pre' = Snapshot
    /\ UNCHANGED <<conn, clientInfo, rooms, run>>

Single_Next ==
    \E c \in Conns :
        \/ Single_Connect(c)
        \/ Single_SenderJoin(c)
        \/ Single_ClientJoin(c)
        \/ Single_PrankMessage(c)
        \/ Single_Ping(c)
        \/ Single_UnknownType(c)
        \/ Single_Malformed(c)
        \/ Single_Close(c)
        \/ Single_SocketError(c)

SpecSingle == Single_Init /\ [][Single_Next]_vars

\* C20 (server.js): the room's client slot goes from occupied to empty, and
\* target_lost is sent, only while processing the close of the connection
\* that occupied the slot when the event arrived.
C20_SlotClearedOnlyByOccupant ==
    LET before == Single_Room(pre.rooms).client
        after  == Single_Room(rooms).client
    IN  /\ (before # NULL /\ after = NULL) => (ev.kind = "close" /\ ev.ws = before)
        /\ OfType("target_lost") # <<>> => (ev.kind = "close" /\ ev.ws = before)

====
